---- MODULE Spec2Model ----
(***************************************************************************)
(* UL-Arche-Analyser: the session of the desktop application.              *)
(*                                                                         *)
(*   - lib/csv_file_manager.py : open_csv / load_data (the dataset)        *)
(*   - frame/widget_query.py   : TwoColumnWidget (the class schedules and  *)
(*                               their JSON file), CheckableComboBox (the  *)
(*                               student filter)                           *)
(*   - frame/widget_result.py  : WidgetResult.compute (the result grid)    *)
(*   - lib/supervisor.py       : the decorator that reports an exception   *)
(*                               in a message box                          *)
(*                                                                         *)
(* Texts are strings.  A score text is a tuple of one-character strings,   *)
(* so that float() and the comma substitution are computed.  A timestamp   *)
(* is the day of January 2024 it falls on, at 08:00:00.                    *)
(*                                                                         *)
(* Column names are the string literals of the source.  The literals of    *)
(* lib/csv_file_manager.py are 'Commenc√©', 'Termin√©' and 'Pr√©nom'       *)
(* (lines 214, 216, 223, 247); those of frame/widget_result.py are         *)
(* 'Commencé', 'Terminé' and 'Prénom' (lines 105, 130, 131).  They are     *)
(* different strings, hence different columns of a DataFrame.  In the      *)
(* strings of this module the character U+221A is written \u221a.          *)
(***************************************************************************)
EXTENDS Integers, Sequences, FiniteSets, TLC

VARIABLES
    data,             \* parent.data: None, or the DataFrame
    student_filter,   \* widget_student_filter: the items of the CheckableComboBox
    class_info,       \* TwoColumnWidget.class_info: the dict of class schedules
    class_selection,  \* TwoColumnWidget.class_selection: the QComboBox
    table,            \* TwoColumnWidget.table: the rows of the QTableWidget
    save_file,        \* the file SAVE_FILE: absent, or the JSON document
    modal,            \* the modal window the running handler waits on, and what it shows
    results,          \* the labels compute added to layout_result in the running call
    layout_result     \* WidgetResult.layout_result: the labels the cells of the grid hold

vars == <<data, student_filter, class_info, class_selection, table, save_file,
          modal, results, layout_result>>

(***************************************************************************)
(* Bounds of the model.                                                    *)
(***************************************************************************)
MaxCsvRows == 2      \* rows of a CSV file
MaxIntervals == 2    \* intervals of the class of a document found at start-up
MaxTableRows == 1    \* rows add_row brings the schedule table to
MaxClasses == 3      \* items class_add brings the class selector to
MaxEditedClasses == 2   \* the same, in the sessions in which the user edits the cells
MaxLoaderRows == 1   \* rows of a CSV file of the loader sessions
MaxLabels == 2       \* labels the calls of compute bring one cell of the result grid to

(***************************************************************************)
(* Python values.                                                          *)
(***************************************************************************)
None == "None"

\* a call returns a value or raises: the exception type (None when it
\* returns) and the value
Return(v) == [raised |-> None, value |-> v]
Raise(exception) == [raised |-> exception, value |-> 0]
IsRaised(r) == r.raised # None

Range(s) == {s[i] : i \in 1..Len(s)}

\* the sequences over S of length at most n
SeqUpTo(S, n) == UNION {[1..k -> S] : k \in 0..n}

\* list.pop(i); list.insert(i, x), 0-based as in Python
list_remove(s, i) == SubSeq(s, 1, i) \o SubSeq(s, i + 2, Len(s))
list_insert(s, i, x) ==
    LET k == IF i > Len(s) THEN Len(s) ELSE i
    IN  SubSeq(s, 1, k) \o <<x>> \o SubSeq(s, k + 1, Len(s))

\* list.index(x), 0-based; x is in s
list_index(s, x) == (CHOOSE i \in 1..Len(s) : s[i] = x /\ \A j \in 1..(i - 1) : s[j] # x) - 1

(***************************************************************************)
(* lib.parameters.EXPECTED_COLUMNS: the required column names, as the      *)
(* input format names them.                                                *)
(***************************************************************************)
EXPECTED_COLUMNS ==
    {"Nom de famille", "Prénom", "Statut", "Commencé", "Terminé", "Note/20,00"}

(***************************************************************************)
(* Text conversions.                                                       *)
(***************************************************************************)
\* the order of str by code point (Python's <, <=, max on str), on the texts
\* of the model: a text's rank is its place in the sorted list
CodepointOrder ==
    << "", "01 janvier 2024 08:00:00", "03 janvier 2024 08:00:00", "03/01/2024",
       "2024-01-01 08:00", "2024-01-03 08:00", "Bio", "Cruz", "De", "De La", "La Cruz",
       "Luc", "Martin", "Math", "abc" >>

str_rank(text) == list_index(CodepointOrder, text)

\* datetime.strptime(text, '%d %B %Y %X') under the locale fr_FR.UTF-8, as
\* to_datetime(format=..., errors='raise') applies it to each cell
strptime(text) ==
    CASE text = "01 janvier 2024 08:00:00" -> Return(1)
      [] text = "03 janvier 2024 08:00:00" -> Return(3)
      [] OTHER -> Raise("ValueError")

\* dateutil.parser.parse(text), which is_datetime tries: the datetime the text
\* writes, or the error of a text that writes none (the empty text, a word, a
\* date with a French month name)
parse(text) ==
    CASE text = "2024-01-01 08:00" -> Return(1)
      [] text = "2024-01-03 08:00" -> Return(3)
      [] OTHER -> Raise("ParserError")

\* TwoColumnWidget.is_datetime
is_datetime(text) == ~IsRaised(parse(text))

Digit(c) ==
    CASE c = "0" -> 0 [] c = "1" -> 1 [] c = "2" -> 2 [] c = "3" -> 3 [] c = "4" -> 4
      [] c = "5" -> 5 [] c = "6" -> 6 [] c = "7" -> 7 [] c = "8" -> 8 [] c = "9" -> 9
      [] OTHER -> -1

\* str.replace(',', '.')
replace_comma(x) == [i \in 1..Len(x) |-> IF x[i] = "," THEN "." ELSE x[i]]

RECURSIVE digits_value(_)
\* the number a run of digits writes
digits_value(s) ==
    IF Len(s) = 0 THEN 0 ELSE 10 * digits_value(SubSeq(s, 1, Len(s) - 1)) + Digit(s[Len(s)])

IsDigits(s) == \A i \in 1..Len(s) : Digit(s[i]) >= 0

\* float(text), in hundredths: an optional sign, digits, optionally a point and
\* at most two more digits (the texts of the model carry no more); anything
\* else raises
float(text) ==
    LET signed == Len(text) > 0 /\ text[1] \in {"-", "+"}
        x == IF signed THEN Tail(text) ELSE text
        sign == IF signed /\ text[1] = "-" THEN -1 ELSE 1
        dots == {i \in 1..Len(x) : x[i] = "."}
    IN  IF Len(x) = 0 \/ Cardinality(dots) > 1 THEN Raise("ValueError")
        ELSE IF dots = {}
             THEN IF IsDigits(x) THEN Return(sign * 100 * digits_value(x))
                  ELSE Raise("ValueError")
        ELSE LET p == CHOOSE i \in dots : TRUE
                 whole == SubSeq(x, 1, p - 1)
                 frac == SubSeq(x, p + 1, Len(x))
             IN  IF ~IsDigits(whole) \/ ~IsDigits(frac) \/ Len(whole) + Len(frac) = 0
                    \/ Len(frac) > 2
                 THEN Raise("ValueError")
                 ELSE Return(sign * (100 * digits_value(whole)
                                    + (IF Len(frac) = 1 THEN 10 ELSE 1) * digits_value(frac)))

\* f"{v:.2f}" of a number given in hundredths
format_2f(v) ==
    LET a == IF v < 0 THEN -v ELSE v
    IN  (IF v < 0 THEN "-" ELSE "") \o ToString(a \div 100) \o "."
        \o ToString((a % 100) \div 10) \o ToString(a % 10)

RECURSIVE join(_, _)
\* sep.join(texts)
join(sep, texts) ==
    IF Len(texts) = 0 THEN ""
    ELSE IF Len(texts) = 1 THEN texts[1]
    ELSE texts[1] \o sep \o join(sep, Tail(texts))

\* f"{name[0]} {name[1]}"
full_name(last, first) == last \o " " \o first

(***************************************************************************)
(* pandas: a DataFrame is its column labels in order, each column's dtype, *)
(* and its rows (the index label of a row is its place in the file).       *)
(***************************************************************************)
\* parent.data before any load: no DataFrame
NoData == [frame |-> FALSE, columns |-> <<>>, dtype |-> <<>>, rows |-> <<>>]

\* a file read_csv raises on (it holds no header line)
EmptyFile == [header |-> <<>>, rows |-> <<>>]

\* read_csv(path): every column is read as text (dtype object), except that a
\* score column whose cells all read as numbers is given a numeric dtype
read_csv(file) ==
    IF file = EmptyFile THEN Raise("EmptyDataError")
    ELSE LET note == "Note/20,00"
             numeric == /\ note \in Range(file.header)
                        /\ Len(file.rows) > 0
                        /\ \A i \in 1..Len(file.rows) : ~IsRaised(float(file.rows[i][note]))
         IN  Return(
             [frame |-> TRUE,
              columns |-> file.header,
              dtype |-> [c \in Range(file.header) |->
                            IF c = note /\ numeric THEN "float64" ELSE "object"],
              rows |-> [i \in 1..Len(file.rows) |->
                          [c \in Range(file.header) |->
                              IF c = note /\ numeric THEN float(file.rows[i][c]).value
                              ELSE file.rows[i][c]]]])

\* df[col] = values, where values is the column with its new dtype
set_column(df, col, dtype, values) ==
    [df EXCEPT !.dtype[col] = dtype,
               !.rows = [i \in 1..Len(df.rows) |-> [df.rows[i] EXCEPT ![col] = values[i]]]]

\* to_datetime(df[col], format='%d %B %Y %X', errors='raise'): the column, or
\* what it raises; df[col] raises KeyError when the frame has no column col
to_datetime(df, col) ==
    IF col \notin Range(df.columns) THEN Raise("KeyError")
    ELSE IF \E i \in 1..Len(df.rows) : IsRaised(strptime(df.rows[i][col]))
    THEN Raise("ValueError")
    ELSE Return([i \in 1..Len(df.rows) |-> strptime(df.rows[i][col]).value])

\* df[col].apply(lambda x: float(x.replace(',', '.'))): a number has no replace
apply_float(df, col) ==
    IF Len(df.rows) > 0 /\ df.dtype[col] # "object" THEN Raise("AttributeError")
    ELSE IF \E i \in 1..Len(df.rows) : IsRaised(float(replace_comma(df.rows[i][col])))
    THEN Raise("ValueError")
    ELSE Return([i \in 1..Len(df.rows) |-> float(replace_comma(df.rows[i][col])).value])

\* removed_col = df.pop(col); df.insert(idx, col, removed_col), on the labels
pop_insert(columns, col, idx) ==
    list_insert(list_remove(columns, list_index(columns, col)), idx, col)

\* the loop "for col, idx in zip(list_col, list_idx)" of load_data
reorder_columns(columns) ==
    pop_insert(pop_insert(pop_insert(pop_insert(columns,
        "Statut", 2), "Commenc\\u221a©", 3), "Termin\\u221a©", 4), "Note/20,00", 5)

\* the order of the keys of groupby: tuples of str, by code point
key_less(a, b) ==
    \/ str_rank(a[1]) < str_rank(b[1])
    \/ a[1] = b[1] /\ str_rank(a[2]) < str_rank(b[2])

RECURSIVE sorted_keys(_)
sorted_keys(S) ==
    IF S = {} THEN <<>>
    ELSE LET m == CHOOSE a \in S : \A b \in S \ {a} : key_less(a, b)
         IN  <<m>> \o sorted_keys(S \ {m})

\* the keys of df.groupby(['Nom de famille', first]), in sorted order
groupby_keys(df, first) ==
    sorted_keys({<<df.rows[i]["Nom de famille"], df.rows[i][first]>> : i \in 1..Len(df.rows)})

\* the groups of the keys: each key with the index labels of its rows, in the
\* order of the frame
groups_of(df, first, keys) ==
    [k \in 1..Len(keys) |->
        [name |-> keys[k],
         group |-> SelectSeq([i \in 1..Len(df.rows) |-> i],
                             LAMBDA i : <<df.rows[i]["Nom de famille"], df.rows[i][first]>>
                                        = keys[k])]]

\* df.groupby(['Nom de famille', first]), first being a column of df
groupby(df, first) == groups_of(df, first, groupby_keys(df, first))

(***************************************************************************)
(* CheckableComboBox (the student filter).                                 *)
(***************************************************************************)
\* add_checkable_item(text=f"{name[0]} {name[1]}", checked=True) for every
\* key of the groups
filter_of(keys) ==
    [k \in 1..Len(keys) |-> [text |-> full_name(keys[k][1], keys[k][2]), checked |-> TRUE]]

checked_items(items) ==
    LET on == SelectSeq(items, LAMBDA it : it.checked)
    IN  [k \in 1..Len(on) |-> on[k].text]

(***************************************************************************)
(* lib/csv_file_manager.py: load_data.  What the call leaves in            *)
(* parent.data and in the student filter, and the exception it ends with   *)
(* (None when it returns).                                                 *)
(***************************************************************************)
load_failed(df, old_filter, raised, missing) ==
    [data |-> df, filter |-> old_filter, raised |-> raised, missing |-> missing]

\* lines 244-248: the filter is cleared, then filled from the groups by
\* 'Nom de famille' and 'Pr√©nom'; groupby raises KeyError on a frame without
\* that column
load_filter(df) ==
    IF "Pr\\u221a©nom" \notin Range(df.columns) THEN load_failed(df, <<>>, "KeyError", {})
    ELSE [data |-> df, filter |-> filter_of(groupby_keys(df, "Pr\\u221a©nom")),
          raised |-> None, missing |-> {}]

\* lines 219-235, note being what the conversion of the score column gives
load_note(df, old_filter, note) ==
    IF IsRaised(note) THEN load_failed(df, old_filter, note.raised, {})
    ELSE load_filter([set_column(df, "Note/20,00", "float64", note.value)
                         EXCEPT !.columns = reorder_columns(df.columns)])

\* line 216, completed being what the conversion of 'Termin√©' gives
load_completed(df, old_filter, completed) ==
    IF IsRaised(completed) THEN load_failed(df, old_filter, completed.raised, {})
    ELSE load_note(set_column(df, "Termin\\u221a©", "datetime64", completed.value), old_filter,
                   apply_float(df, "Note/20,00"))

\* line 214, started being what the conversion of 'Commenc√©' gives
load_started(df, old_filter, started) ==
    IF IsRaised(started) THEN load_failed(df, old_filter, started.raised, {})
    ELSE load_completed(set_column(df, "Commenc\\u221a©", "datetime64", started.value), old_filter,
                        to_datetime(df, "Termin\\u221a©"))

\* load_columns with the columns checked after the first conversion
load_columns_late(df, old_filter) ==
    IF IsRaised(to_datetime(df, "Commenc\\u221a©"))
    THEN load_failed(df, old_filter, to_datetime(df, "Commenc\\u221a©").raised, {})
    ELSE IF EXPECTED_COLUMNS \ Range(df.columns) # {}
    THEN load_failed(df, old_filter, "ValueError", EXPECTED_COLUMNS \ Range(df.columns))
    ELSE load_started(df, old_filter, to_datetime(df, "Commenc\\u221a©"))

\* lines 204-210: parent.data holds the frame read, whose columns are checked
load_columns(df, old_filter) ==
    IF EXPECTED_COLUMNS \ Range(df.columns) # {}
    THEN load_failed(df, old_filter, "ValueError", EXPECTED_COLUMNS \ Range(df.columns))
    ELSE load_started(df, old_filter, to_datetime(df, "Commenc\\u221a©"))

\* line 200, read being what read_csv gives
load_read(old_data, old_filter, read) ==
    IF IsRaised(read) THEN load_failed(old_data, old_filter, read.raised, {})
    ELSE load_columns(read.value, old_filter)

load_data(old_data, old_filter, file) == load_read(old_data, old_filter, read_csv(file))

(***************************************************************************)
(* frame/widget_query.py: TwoColumnWidget.  class_info is a dict, which    *)
(* keeps its keys in insertion order: a sequence of (name, schedule).  A   *)
(* cell of the table holds its text; a cell without an item reads as "",   *)
(* as get_data reads it.                                                   *)
(***************************************************************************)
dict_keys(d) == [k \in 1..Len(d) |-> d[k].name]

dict_has(d, name) == \E k \in 1..Len(d) : d[k].name = name

dict_get(d, name) == d[CHOOSE k \in 1..Len(d) : d[k].name = name].schedule

\* d[name] = schedule: in place for a key of d, appended otherwise
dict_set(d, name, schedule) ==
    IF dict_has(d, name)
    THEN [k \in 1..Len(d) |-> IF d[k].name = name THEN [d[k] EXCEPT !.schedule = schedule]
                                                 ELSE d[k]]
    ELSE Append(d, [name |-> name, schedule |-> schedule])

\* d.pop(name), name a key of d
dict_pop(d, name) == SelectSeq(d, LAMBDA e : e.name # name)

\* QComboBox.currentText()
currentText(combo) == IF combo.index < 0 THEN "" ELSE combo.items[combo.index + 1]

\* get_data: the (start, end) texts of the rows of the table
get_data(rows) == [r \in 1..Len(rows) |-> <<rows[r][1], rows[r][2]>>]

\* TwoColumnWidget.load_data: the table shows the schedule of the selected
\* class, or no row when the selected text is no key of class_info
load_table(info, combo) ==
    IF dict_has(info, currentText(combo)) THEN dict_get(info, currentText(combo)) ELSE <<>>

\* the slot of currentTextChanged: load_data runs when the current text changed
text_changed(info, before, after, old_table) ==
    IF currentText(before) # currentText(after) THEN load_table(info, after)
    ELSE old_table

\* json.dump(class_info, f, indent=4, sort_keys=True)
dump_sort_keys(info) ==
    LET sorted == SortSeq(info, LAMBDA a, b : str_rank(a.name) < str_rank(b.name))
    IN  [k \in 1..Len(sorted) |->
            [key |-> sorted[k].name,
             value |-> [r \in 1..Len(sorted[k].schedule) |->
                          <<sorted[k].schedule[r][1], sorted[k].schedule[r][2]>>]]]

\* json.dump(class_info, f, indent=4) and json.load(f): an object whose members
\* are the keys in order, each with the array of its [start, end] arrays
dump(info) ==
    [k \in 1..Len(info) |->
        [key |-> info[k].name,
         value |-> [r \in 1..Len(info[k].schedule) |->
                      <<info[k].schedule[r][1], info[k].schedule[r][2]>>]]]

load(document) ==
    [k \in 1..Len(document) |->
        [name |-> document[k].key,
         schedule |-> [r \in 1..Len(document[k].value) |->
                         <<document[k].value[r][1], document[k].value[r][2]>>]]]

\* the placeholder {'': []} class_save compares class_info with
placeholder == <<[name |-> "", schedule |-> <<>>]>>

\* the file SAVE_FILE: absent, or holding a document, or holding a text that
\* is no JSON document
Absent == [exists |-> FALSE, json |-> TRUE, document |-> <<>>]
Holding(document) == [exists |-> TRUE, json |-> TRUE, document |-> document]
Malformed == [exists |-> TRUE, json |-> FALSE, document |-> <<>>]

(***************************************************************************)
(* frame/widget_result.py: WidgetResult.compute.                           *)
(***************************************************************************)
\* series >= text or series <= text, on the row with index label i.  The
\* columns compute reads, 'Commencé' and 'Terminé', hold the str read_csv read
\* (load_data converts the columns it names 'Commenc√©' and 'Termin√©'): the
\* comparison with a str is that of str, by code point
compare(df, col, i, op, text) ==
    IF op = ">=" THEN str_rank(df.rows[i][col]) >= str_rank(text)
    ELSE str_rank(df.rows[i][col]) <= str_rank(text)

\* row_first_checked[(row_first_checked['Commencé'] >= start) &
\*                   (row_first_checked['Terminé'] <= end)]
in_interval(df, rows, start, end) ==
    SelectSeq(rows, LAMBDA i : /\ compare(df, "Commencé", i, ">=", start)
                               /\ compare(df, "Terminé", i, "<=", end))

\* concat with the new rows put first
concat_front(df, rows) == rows \o df

\* concat([df, rows]): df followed by rows
concat(df, rows) == df \o rows

RECURSIVE concat_intervals(_, _, _, _)
\* the loop "for start, end in schedule_data: df = concat([df, ...])"
concat_intervals(df, frame, rows, schedule_data) ==
    IF Len(schedule_data) = 0 THEN df
    ELSE concat_intervals(
             concat(df, in_interval(frame, rows, schedule_data[1][1], schedule_data[1][2])),
             frame, rows, Tail(schedule_data))

\* df['Note/20,00'].max() of the rows with index labels matched, of which
\* there is one at least (the maximum of no row is nan, and nan > 0 is False)
max_note(df, matched) ==
    LET notes == {df.rows[matched[k]]["Note/20,00"] : k \in 1..Len(matched)}
    IN  CHOOSE m \in notes : \A n \in notes : n <= m

\* max_text with the test max >= 0
max_text_nonnegative(max) == IF max >= 0 THEN format_2f(max) ELSE ""

\* the label of the MAX. column, max being the maximum
max_text(max) == IF max > 0 THEN format_2f(max) ELSE ""

max_label(df, matched) == IF Len(matched) = 0 THEN "" ELSE max_text(max_note(df, matched))

\* the label of the NOTES column
notes_label(df, matched) ==
    join(", ", [k \in 1..Len(matched) |-> format_2f(df.rows[matched[k]]["Note/20,00"])])

\* lines 133-154: the labels of one selected student (name is the key of the
\* group, the loop variable), matched being the index labels of df
student_labels(frame, name, matched) ==
    IF Len(matched) > 0 /\ frame.dtype["Note/20,00"] = "object"
    THEN \* the maximum of a column of str is a str, and str > 0 raises
         [labels |-> <<[name |-> name, student |-> full_name(name[1], name[2]),
                        max |-> None, notes |-> None, df |-> matched]>>,
          raised |-> "TypeError"]
    ELSE [labels |-> <<[name |-> name, student |-> full_name(name[1], name[2]),
                        max |-> max_label(frame, matched),
                        notes |-> notes_label(frame, matched), df |-> matched]>>,
          raised |-> None]

\* lines 119-131: the body of the loop for one selected student
student_row(frame, name, group, schedule_data) ==
    student_labels(frame, name,
        concat_intervals(<<>>, frame,
            SelectSeq(group, LAMBDA i : frame.rows[i]["Statut"] = "Terminée"),
            schedule_data))

\* the labels of the students before, then those of one more
student_next(done, one) == [labels |-> done.labels \o one.labels, raised |-> one.raised]

RECURSIVE student_loop(_, _, _, _, _)
\* the loop "for name, group in student", done being what the students before
\* left
student_loop(done, frame, groups, checked, schedule_data) ==
    IF Len(groups) = 0 \/ done.raised # None THEN done
    ELSE IF full_name(groups[1].name[1], groups[1].name[2]) \notin Range(checked)
    THEN student_loop(done, frame, Tail(groups), checked, schedule_data)
    ELSE student_loop(
             student_next(done, student_row(frame, groups[1].name, groups[1].group,
                                            schedule_data)),
             frame, Tail(groups), checked, schedule_data)

\* compute: the labels added, what it raises, and the missing columns it names
compute_run(run, missing) == [labels |-> run.labels, raised |-> run.raised, missing |-> missing]

compute_on(frame, items, rows) ==
    IF ~frame.frame THEN [labels |-> <<>>, raised |-> "ValueError", missing |-> {}]
    ELSE IF ~(EXPECTED_COLUMNS \subseteq Range(frame.columns))
    THEN [labels |-> <<>>, raised |-> "ValueError",
          missing |-> EXPECTED_COLUMNS \ Range(frame.columns)]
    ELSE compute_run(student_loop([labels |-> <<>>, raised |-> None], frame,
                                  groupby(frame, "Prénom"), checked_items(items), get_data(rows)),
                     {})

\* WidgetResult.__init__: the grid of a new WidgetResult holds the headers,
\* which are its row 0, and no label in the rows below
new_layout == <<>>

\* layout_result.addWidget(QLabel(text), cpt, col): a cell of the grid holds
\* the labels added to it, in the order they were added; nothing takes a
\* label out of the grid
addWidget(layout, cpt, col, text) ==
    IF cpt > Len(layout)
    THEN Append(layout, [c \in 1..3 |-> IF c = col THEN <<text>> ELSE <<>>])
    ELSE [layout EXCEPT ![cpt][col] = Append(@, text)]

\* lines 137-151: the labels of the student of row cpt; the label of the
\* name is in the grid when the maximum raises
add_student(layout, cpt, label) ==
    IF label.max = None THEN addWidget(layout, cpt, 1, label.student)
    ELSE addWidget(addWidget(addWidget(layout, cpt, 1, label.student), cpt, 2, label.max),
                   cpt, 3, label.notes)

RECURSIVE add_labels(_, _, _)
\* the grid after a call of compute that added the labels from row cpt on
add_labels(layout, labels, cpt) ==
    IF cpt > Len(labels) THEN layout
    ELSE add_labels(add_student(layout, cpt, labels[cpt]), labels, cpt + 1)

(***************************************************************************)
(* The windows a handler waits on: dialog.exec() of compute, and the       *)
(* QMessageBox.critical of supervisor.  Both are modal: no other handler   *)
(* runs until the user closes the window.  An exception in a handler that  *)
(* supervisor does not wrap ends the application.                          *)
(***************************************************************************)
NoModal == [window |-> "none", function |-> None, error |-> None, missing |-> {}]

ResultDialog ==
    [window |-> "Result", function |-> "compute", error |-> None, missing |-> {}]

\* supervisor: the except branch of the wrapper of function, whose message box
\* shows the traceback (the function, the exception and its message)
ErrorBox(function, raised, missing) ==
    [window |-> "Error", function |-> function, error |-> raised, missing |-> missing]

Crashed(function, raised) ==
    [window |-> "crashed", function |-> function, error |-> raised, missing |-> {}]

Idle == modal = NoModal

(***************************************************************************)
(* The state after construction, given the file SAVE_FILE.                 *)
(***************************************************************************)
\* TwoColumnWidget.__init__ (class_info, the selector, the table) and the
\* widgets a new main window holds; json.load (line 84) raises on a file that
\* holds no JSON document, in a constructor that catches nothing
constructed(file) ==
    LET info == IF file.exists /\ file.json THEN load(file.document) ELSE <<>>
        combo == [items |-> dict_keys(info), index |-> IF Len(info) > 0 THEN 0 ELSE -1]
    IN  [data |-> NoData, student_filter |-> <<>>, class_info |-> info,
         class_selection |-> combo, table |-> load_table(info, combo),
         raised |-> IF file.exists /\ ~file.json THEN "JSONDecodeError" ELSE None]

\* the application after the constructors: running, or ended by the exception
started(raised) == IF raised = None THEN NoModal ELSE Crashed("__init__", raised)

InitOn(file) ==
    /\ data = constructed(file).data
    /\ student_filter = constructed(file).student_filter
    /\ class_info = constructed(file).class_info
    /\ class_selection = constructed(file).class_selection
    /\ table = constructed(file).table
    /\ save_file = file
    /\ modal = started(constructed(file).raised)
    /\ results = <<>>
    /\ layout_result = new_layout

(***************************************************************************)
(* The handlers.                                                           *)
(***************************************************************************)
\* what load_data leaves, and the message box of supervisor when it raised
loaded(outcome) ==
    /\ data' = outcome.data
    /\ student_filter' = outcome.filter
    /\ modal' = IF outcome.raised = None THEN NoModal
              ELSE ErrorBox("load_data", outcome.raised, outcome.missing)

\* open_csv: the user cancels the dialog, names a file that is no .csv, or
\* names a CSV file, which load_data then reads
open_csv(choice, file) ==
    /\ Idle
    /\ \/ /\ choice = "cancel"
          /\ UNCHANGED <<data, student_filter, modal>>
       \/ /\ choice = "not csv"
          /\ modal' = ErrorBox("open_csv", "ValueError", {})
          /\ UNCHANGED <<data, student_filter>>
       \/ /\ choice = "csv"
          /\ loaded(load_data(data, student_filter, file))
    /\ UNCHANGED <<class_info, class_selection, table, save_file, results, layout_result>>

\* CheckableComboBox.handle_item_pressed
handle_item_pressed(index) ==
    /\ Idle
    /\ index \in 1..Len(student_filter)
    /\ student_filter' = [student_filter EXCEPT ![index].checked = ~@]
    /\ UNCHANGED <<data, class_info, class_selection, table, save_file, modal, results, layout_result>>

\* computed with the dialog shown whatever the call raised
computed_dialog(run) ==
    /\ results' = run.labels
    /\ layout_result' = add_labels(layout_result, run.labels, 1)
    /\ modal' = ResultDialog

\* the labels compute added, and the window it ends on: the result dialog, or
\* the message box of supervisor
computed(run) ==
    /\ results' = run.labels
    /\ layout_result' = add_labels(layout_result, run.labels, 1)
    /\ modal' = IF run.raised = None THEN ResultDialog
              ELSE ErrorBox("compute", run.raised, run.missing)

\* WidgetResult.compute, up to that window
compute ==
    /\ Idle
    /\ \A cpt \in 1..Len(layout_result) : Len(layout_result[cpt][1]) < MaxLabels
    /\ computed(compute_on(data, student_filter, table))
    /\ UNCHANGED <<data, student_filter, class_info, class_selection, table, save_file>>

\* the user closes the result dialog or the message box
close_window ==
    /\ modal.window \in {"Result", "Error"}
    /\ modal' = NoModal
    /\ results' = <<>>
    /\ UNCHANGED <<data, student_filter, class_info, class_selection, table, save_file,
                   layout_result>>

\* TwoColumnWidget.add_row
add_row ==
    /\ Idle
    /\ Len(table) < MaxTableRows
    /\ table' = Append(table, <<"", "">>)
    /\ UNCHANGED <<data, student_filter, class_info, class_selection, save_file, modal, results, layout_result>>

\* TwoColumnWidget.remove_selected_row, row being table.currentRow()
remove_selected_row(row) ==
    /\ Idle
    /\ row \in -1..(Len(table) - 1)
    /\ table' = IF row >= 0 THEN list_remove(table, row) ELSE table
    /\ UNCHANGED <<data, student_filter, class_info, class_selection, save_file, modal, results, layout_result>>

\* the user edits a cell; validate_cell then colours it and rejects nothing
edit_cell(row, col, text) ==
    /\ Idle
    /\ row \in 1..Len(table)
    /\ col \in 1..2
    /\ table' = [table EXCEPT ![row][col] = text]
    /\ UNCHANGED <<data, student_filter, class_info, class_selection, save_file, modal, results, layout_result>>

\* the user picks an item of the class selector
select_class(index) ==
    /\ Idle
    /\ index \in 0..(Len(class_selection.items) - 1)
    /\ class_selection' = [class_selection EXCEPT !.index = index]
    /\ table' = text_changed(class_info, class_selection, class_selection', table)
    /\ UNCHANGED <<data, student_filter, class_info, save_file, modal, results, layout_result>>

\* class_add that writes the file
class_add_saved(name, ok) ==
    /\ Idle
    /\ Len(class_selection.items) < MaxClasses
    /\ IF ok /\ name # ""
       THEN LET items == Append(class_selection.items, name)
            IN  /\ class_info' = dict_set(class_info, name, <<>>)
                /\ class_selection' = [items |-> items, index |-> list_index(items, name)]
                /\ table' = load_table(class_info', class_selection')
                /\ save_file' = Holding(dump(class_info'))
       ELSE UNCHANGED <<class_info, class_selection, table, save_file>>
    /\ UNCHANGED <<data, student_filter, modal, results, layout_result>>

\* TwoColumnWidget.class_add, (name, ok) being what the input dialog returns
class_add(name, ok) ==
    /\ Idle
    /\ Len(class_selection.items) < MaxClasses
    /\ IF ok /\ name # ""
       THEN LET items == Append(class_selection.items, name)
            IN  /\ class_info' = dict_set(class_info, name, <<>>)
                /\ class_selection' = [items |-> items, index |-> list_index(items, name)]
                /\ table' = load_table(class_info', class_selection')
       ELSE UNCHANGED <<class_info, class_selection, table>>
    /\ UNCHANGED <<data, student_filter, save_file, modal, results, layout_result>>

\* QComboBox.removeItem(currentIndex()): the item that follows becomes current
removeItem(combo) ==
    LET items == list_remove(combo.items, combo.index)
    IN  [items |-> items,
         index |-> IF Len(items) = 0 THEN -1
                   ELSE IF combo.index > Len(items) - 1 THEN Len(items) - 1
                   ELSE combo.index]

\* class_save without the test on the placeholder
saved_always(info, combo, rows) ==
    /\ class_info' = dict_set(info, currentText(combo), get_data(rows))
    /\ save_file' = Holding(dump(class_info'))

\* class_save that keeps the selected class only
saved_alone(info, combo, rows) ==
    /\ class_info' = <<[name |-> currentText(combo), schedule |-> get_data(rows)]>>
    /\ save_file' = IF class_info' # placeholder THEN Holding(dump(class_info')) ELSE Absent

\* class_save, from the values class_info, the selector and the table hold
saved(info, combo, rows) ==
    /\ class_info' = dict_set(info, currentText(combo), get_data(rows))
    /\ save_file' = IF class_info' # placeholder THEN Holding(dump(class_info')) ELSE Absent

\* lines 224-230 of class_remove, combo being the selector after removeItem
removed(info, combo) ==
    /\ class_selection' = combo
    /\ table' = text_changed(info, class_selection, combo, table)
    /\ saved(info, combo, table')

\* TwoColumnWidget.class_remove
class_remove ==
    /\ Idle
    /\ IF currentText(class_selection) = ""
       THEN UNCHANGED <<class_info, class_selection, table, save_file, modal>>
       ELSE IF ~dict_has(class_info, currentText(class_selection))
       THEN /\ modal' = Crashed("class_remove", "KeyError")
            /\ UNCHANGED <<class_info, class_selection, table, save_file>>
       ELSE /\ removed(dict_pop(class_info, currentText(class_selection)),
                       removeItem(class_selection))
            /\ UNCHANGED modal
    /\ UNCHANGED <<data, student_filter, results, layout_result>>

\* TwoColumnWidget.class_save
class_save ==
    /\ Idle
    /\ saved(class_info, class_selection, table)
    /\ UNCHANGED <<data, student_filter, class_selection, table, modal, results, layout_result>>

\* the user quits and starts the application again: the constructors run on
\* the file as it is
restart ==
    /\ Idle
    /\ data' = constructed(save_file).data
    /\ student_filter' = constructed(save_file).student_filter
    /\ class_info' = constructed(save_file).class_info
    /\ class_selection' = constructed(save_file).class_selection
    /\ table' = constructed(save_file).table
    /\ modal' = started(constructed(save_file).raised)
    /\ layout_result' = new_layout
    /\ UNCHANGED <<save_file, results>>

(***************************************************************************)
(* Inputs.                                                                 *)
(***************************************************************************)
\* two students whose names are written alike, last name then first name
Students == {<<"De La", "Cruz">>, <<"De", "La Cruz">>}

\* an attempt: status, started-at, completed-at, score
Attempts ==
    { <<"Terminée", "01 janvier 2024 08:00:00", "01 janvier 2024 08:00:00",
        <<"1", "2", ",", "5", "0">> >>,
      <<"Terminée", "03 janvier 2024 08:00:00", "03 janvier 2024 08:00:00",
        <<"0", ",", "0", "0">> >>,
      <<"En cours", "01 janvier 2024 08:00:00", "01 janvier 2024 08:00:00",
        <<"1", "8", ",", "0", "0">> >> }

\* attempts load_data fails on: a date in another format, a score that is no
\* number, and a score column pandas reads as numbers
BadAttempts ==
    { <<"Terminée", "03/01/2024", "01 janvier 2024 08:00:00", <<"1", "2", ",", "5", "0">> >>,
      <<"Terminée", "01 janvier 2024 08:00:00", "03/01/2024", <<"1", "2", ",", "5", "0">> >>,
      <<"Terminée", "01 janvier 2024 08:00:00", "01 janvier 2024 08:00:00", <<"a", "b", "c">> >>,
      <<"Terminée", "01 janvier 2024 08:00:00", "01 janvier 2024 08:00:00", <<"1", "5">> >> }

\* the cells of one attempt, under every column name of the files below: a
\* file that has a column under two names has the same text under both
csv_row(student, attempt) ==
    [c \in EXPECTED_COLUMNS \cup {"Adresse de courriel", "Pr\\u221a©nom", "Commenc\\u221a©", "Termin\\u221a©"} |->
        CASE c = "Nom de famille" -> student[1]
          [] c \in {"Prénom", "Pr\\u221a©nom"} -> student[2]
          [] c = "Adresse de courriel" -> "abc"
          [] c = "Statut" -> attempt[1]
          [] c \in {"Commencé", "Commenc\\u221a©"} -> attempt[2]
          [] c \in {"Terminé", "Termin\\u221a©"} -> attempt[3]
          [] c = "Note/20,00" -> attempt[4]]

\* the column orders of the files.  The export as it comes:
ExportHeader ==
    <<"Nom de famille", "Prénom", "Adresse de courriel", "Statut", "Commencé", "Terminé",
      "Note/20,00">>

\* the export followed by the three columns under the names load_data reads
LoadableHeader ==
    <<"Nom de famille", "Prénom", "Adresse de courriel", "Statut", "Commencé", "Terminé",
      "Note/20,00", "Pr\\u221a©nom", "Commenc\\u221a©", "Termin\\u221a©">>

\* the same columns, the dates first
DatesFirstHeader ==
    <<"Commenc\\u221a©", "Termin\\u221a©", "Commencé", "Terminé", "Nom de famille", "Prénom", "Pr\\u221a©nom",
      "Statut", "Note/20,00">>

\* no column 'Pr√©nom'
NoFirstNameHeader ==
    <<"Nom de famille", "Prénom", "Statut", "Commencé", "Terminé", "Note/20,00",
      "Commenc\\u221a©", "Termin\\u221a©">>

\* no score
NoScoreHeader ==
    <<"Nom de famille", "Prénom", "Statut", "Commencé", "Terminé", "Commenc\\u221a©", "Termin\\u221a©",
      "Pr\\u221a©nom">>

\* no status
NoStatusHeader ==
    <<"Nom de famille", "Prénom", "Commencé", "Terminé", "Note/20,00", "Commenc\\u221a©",
      "Termin\\u221a©", "Pr\\u221a©nom">>

csv_file(header, rows) ==
    [header |-> header,
     rows |-> [i \in 1..Len(rows) |-> [c \in Range(header) |-> rows[i][c]]]]

\* the files load_data loads: well-formed attempts, every column under the
\* names load_data and compute read
GoodFiles ==
    {csv_file(LoadableHeader, rows) :
        rows \in SeqUpTo({csv_row(s, a) : s \in Students, a \in Attempts}, MaxCsvRows)}

\* a file whose column 'Pr√©nom' does not repeat the first names: it holds "Cruz" for
\* the student whose first name is "Luc"
OtherFirstNameFiles ==
    {csv_file(LoadableHeader, rows) :
        rows \in SeqUpTo({[csv_row(<<"Martin", "Luc">>, a) EXCEPT !["Pr\\u221a©nom"] = "Cruz"] :
                             a \in Attempts}, MaxLoaderRows)}

\* the files of one student, in every column order, well formed or not
LoaderFiles ==
    {EmptyFile} \cup OtherFirstNameFiles \cup
    {csv_file(h, rows) :
        h \in {ExportHeader, LoadableHeader, DatesFirstHeader, NoFirstNameHeader, NoScoreHeader,
               NoStatusHeader},
        rows \in SeqUpTo({csv_row(<<"Martin", "Luc">>, a) : a \in Attempts \cup BadAttempts},
                         MaxLoaderRows)}

\* the texts a user types in a cell of the schedule table
CellTexts == {"2024-01-01 08:00", "abc"}

\* the intervals of the persisted documents: texts that write a datetime, the
\* empty text, a word, and dates written as the export writes them
Intervals ==
    { <<"2024-01-01 08:00", "2024-01-03 08:00">>,
      <<"", "2024-01-03 08:00">>,
      <<"", "01 janvier 2024 08:00:00">>,
      <<"03 janvier 2024 08:00:00", "abc">> }

\* the documents the application may find at start-up: none, or one class
Documents ==
    {Absent} \cup
    {Holding(<<[key |-> "Math", value |-> schedule]>>) :
        schedule \in SeqUpTo(Intervals, MaxIntervals)}

ClassNames == {"Math", "Bio"}

\* two students whose names are written differently, the second in the order
\* of the keys being the first in the files
ResultStudents == {<<"Martin", "Luc">>, <<"De", "La Cruz">>}

\* the files of the sessions that compute again and again: completed attempts
ResultFiles ==
    {csv_file(LoadableHeader, rows) :
        rows \in SeqUpTo({csv_row(s, a) : s \in ResultStudents,
                                           a \in {x \in Attempts : x[1] = "Terminée"}},
                         MaxCsvRows)}

\* the documents of those sessions: none, or one class with one interval
ResultDocuments ==
    {Absent, Holding(<<[key |-> "Math", value |-> << <<"", "01 janvier 2024 08:00:00">> >>]>>)}

(***************************************************************************)
(* The session: every handler, from a first start with no file.            *)
(***************************************************************************)
Init == InitOn(Absent)

Next ==
    \/ \E choice \in {"cancel", "not csv", "csv"}, file \in GoodFiles \cup LoaderFiles :
          open_csv(choice, file)
    \/ \E index \in 1..Len(student_filter) : handle_item_pressed(index)
    \/ compute
    \/ close_window
    \/ add_row
    \/ \E row \in -1..(Len(table) - 1) : remove_selected_row(row)
    \/ \E row \in 1..Len(table), col \in 1..2, text \in CellTexts : edit_cell(row, col, text)
    \/ \E index \in 0..(Len(class_selection.items) - 1) : select_class(index)
    \/ \E name \in ClassNames \cup {""}, ok \in BOOLEAN : class_add(name, ok)
    \/ class_remove
    \/ class_save
    \/ restart

Spec == Init /\ [][Next]_vars

(***************************************************************************)
(* The schedule store alone: the handlers of TwoColumnWidget.              *)
(***************************************************************************)
NextSchedule ==
    \/ add_row
    \/ \E row \in -1..(Len(table) - 1) : remove_selected_row(row)
    \/ \E row \in 1..Len(table), col \in 1..2, text \in CellTexts : edit_cell(row, col, text)
    \/ \E index \in 0..(Len(class_selection.items) - 1) : select_class(index)
    \/ \E name \in ClassNames \cup {""}, ok \in BOOLEAN :
          Len(class_selection.items) < MaxEditedClasses /\ class_add(name, ok)
    \/ class_remove
    \/ class_save
    \/ restart

SpecSchedule == Init /\ [][NextSchedule]_vars

(***************************************************************************)
(* The classes: the application starts on any file, and the user adds,     *)
(* selects, saves and removes classes, adds and removes rows, and leaves   *)
(* the cells as they are.                                                  *)
(***************************************************************************)
InitClasses == \E file \in Documents \cup {Malformed} : InitOn(file)

NextClasses ==
    \/ add_row
    \/ \E row \in -1..(Len(table) - 1) : remove_selected_row(row)
    \/ \E index \in 0..(Len(class_selection.items) - 1) : select_class(index)
    \/ \E name \in ClassNames \cup {""}, ok \in BOOLEAN : class_add(name, ok)
    \/ class_remove
    \/ class_save
    \/ restart

SpecClasses == InitClasses /\ [][NextClasses]_vars

(***************************************************************************)
(* The result engine: the application starts on any persisted document,    *)
(* and the user loads well-formed files, selects students and computes,    *)
(* up to the first computation that shows a student.                       *)
(***************************************************************************)
InitCompute == \E file \in Documents : InitOn(file)

NextCompute ==
    \/ \E file \in GoodFiles : layout_result = new_layout /\ open_csv("csv", file)
    \/ \E index \in 1..Len(student_filter) :
          layout_result = new_layout /\ handle_item_pressed(index)
    \/ layout_result = new_layout /\ compute
    \/ close_window

SpecCompute == InitCompute /\ [][NextCompute]_vars

(***************************************************************************)
(* The result grid: the user loads files, selects students and computes    *)
(* several times in one session.                                           *)
(***************************************************************************)
InitResult == \E file \in ResultDocuments : InitOn(file)

NextResult ==
    \/ \E file \in ResultFiles : open_csv("csv", file)
    \/ \E index \in 1..Len(student_filter) : handle_item_pressed(index)
    \/ compute
    \/ close_window

SpecResult == InitResult /\ [][NextResult]_vars

(***************************************************************************)
(* The dataset loader: files in every column order, well formed or not.    *)
(***************************************************************************)
NextLoad ==
    \/ \E choice \in {"cancel", "not csv", "csv"}, file \in LoaderFiles : open_csv(choice, file)
    \/ \E index \in 1..Len(student_filter) : handle_item_pressed(index)
    \/ compute
    \/ close_window

SpecLoad == Init /\ [][NextLoad]_vars

(***************************************************************************)
(* Properties of load_data.                                                *)
(***************************************************************************)
\* C1: dataset replacement is all-or-nothing: a call of load_data that fails
\* (it ends on the error message) leaves the dataset of the session as it was
\* before the call.
C1_FailedLoadKeepsDataset ==
    [][(\E file \in LoaderFiles : open_csv("csv", file)) /\ modal'.window = "Error"
          => data' = data]_vars

student_of(i) == <<data.rows[i]["Nom de famille"], data.rows[i]["Prénom"]>>

\* the score of the attempt, as Series.max and the f-strings read it
score_of(i) == data.rows[i]["Note/20,00"]

\* the student is selected: the item of the filter that load_data added for
\* the student is checked
selected(name) ==
    \E j \in 1..Len(student_filter) :
        groupby_keys(data, "Pr\\u221a©nom")[j] = name /\ student_filter[j].checked

\* the attempt with index label i is completed, started at or after the start
\* of the interval and was completed at or before its end
completed_inside(i, interval) ==
    /\ data.rows[i]["Statut"] = "Terminée"
    /\ is_datetime(interval[1])
    /\ is_datetime(interval[2])
    /\ strptime(data.rows[i]["Commencé"]).value >= parse(interval[1]).value
    /\ strptime(data.rows[i]["Terminé"]).value <= parse(interval[2]).value

\* C2: for every selected student there is a result row, and the matched rows
\* of a result row are exactly the student's attempts with status 'Terminée'
\* that are inside one stored interval at least.
C2_MatchedRows ==
    /\ modal = ResultDialog =>
           \A name \in Range(groupby_keys(data, "Prénom")) :
               selected(name) => \E k \in 1..Len(results) : results[k].name = name
    /\ \A k \in 1..Len(results) :
           Range(results[k].df)
           = {i \in 1..Len(data.rows) :
                 /\ student_of(i) = results[k].name
                 /\ \E r \in 1..Len(table) : completed_inside(i, table[r])}

\* C3: when the table holds an interval whose start or end text is no datetime,
\* compute still ends on its result window, and what it shows is what it shows
\* for the table without the intervals of that kind.
C3_UnparseableIntervalSkipped ==
    ( /\ data.frame
      /\ modal.window \in {"Result", "Error"}
      /\ \E r \in 1..Len(table) : ~is_datetime(table[r][1]) \/ ~is_datetime(table[r][2]) )
    => /\ modal = ResultDialog
       /\ results
          = compute_on(data, student_filter,
                       SelectSeq(table, LAMBDA row : is_datetime(row[1]) /\ is_datetime(row[2]))
                      ).labels

\* C4: a student of the dataset has a result row if and only if the student is
\* selected.
C4_UnselectedStudentHasNoRow ==
    modal = ResultDialog =>
        \A name \in Range(groupby_keys(data, "Prénom")) :
            (\E k \in 1..Len(results) : results[k].name = name) <=> selected(name)

\* C5: the max field is empty when no row matched or no matched score is above
\* 0; otherwise it is the greatest matched score.  It is never "0.00".
C5_MaxField ==
    \A k \in 1..Len(results) :
        LET scores == {score_of(results[k].df[p]) : p \in 1..Len(results[k].df)}
        IN  /\ results[k].max # "0.00"
            /\ IF \A n \in scores : n <= 0 THEN results[k].max = ""
               ELSE \E m \in scores : /\ \A n \in scores : n <= m
                                       /\ results[k].max = format_2f(m)

\* one result row whose greatest matched score is 0, another with a score above
C5_Witness ==
    /\ modal = ResultDialog
    /\ \E k \in 1..Len(results) : Len(results[k].df) > 0 /\ results[k].max = ""
    /\ \E k \in 1..Len(results) : results[k].max = "12.50"

\* C6, as the claim states it: the scores list holds the scores of the matched
\* rows in the order the rows have in the dataset.
C6_ScoresInRowOrder ==
    \A k \in 1..Len(results) :
        LET rows == SortSeq(results[k].df, LAMBDA a, b : a < b)
        IN  results[k].notes = join(", ", [p \in 1..Len(rows) |-> format_2f(score_of(rows[p]))])

\* C6, amended: the scores list holds the scores of the matched rows interval
\* by interval, in the stored order of the intervals, and in the order of the
\* dataset within one interval: the matched rows are those matched with the
\* last interval left out, followed by those the last interval alone matches,
\* which are in the order of the dataset.  The list is empty when no row
\* matched.
C6_ScoresInIntervalOrder ==
    \A k \in 1..Len(results) :
        LET df == results[k].df
            before == compute_on(data, student_filter,
                                 SubSeq(table, 1, Len(table) - 1)).labels[k].df
            last == compute_on(data, student_filter,
                               SubSeq(table, Len(table), Len(table))).labels[k].df
        IN  /\ results[k].notes = join(", ", [p \in 1..Len(df) |-> format_2f(score_of(df[p]))])
            /\ Len(df) = 0 => results[k].notes = ""
            /\ Len(table) = 0 => df = <<>>
            /\ Len(table) > 0 =>
                   /\ df = before \o last
                   /\ \A a, b \in 1..Len(last) : a < b => last[a] < last[b]

\* a result row whose matched rows are not in the order of the dataset
C6_Witness ==
    /\ modal = ResultDialog
    /\ \E k \in 1..Len(results) :
           \E a, b \in 1..Len(results[k].df) : a < b /\ results[k].df[a] > results[k].df[b]

\* C7: an attempt of a selected student is among the matched rows as many
\* times as there are stored intervals it is inside, and the scores list holds
\* one score for each matched row.
C7_NoDeduplication ==
    \A k \in 1..Len(results) :
        /\ \A i \in 1..Len(data.rows) :
               student_of(i) = results[k].name =>
                   Cardinality({p \in 1..Len(results[k].df) : results[k].df[p] = i})
                   = Cardinality({r \in 1..Len(table) : completed_inside(i, table[r])})
        /\ results[k].notes
           = join(", ", [p \in 1..Len(results[k].df) |-> format_2f(score_of(results[k].df[p]))])

(***************************************************************************)
(* Properties of the schedule store.                                       *)
(***************************************************************************)
\* C8: when class_save leaves a collection with a named class in it, whatever
\* the texts of its intervals, the file exists and a new TwoColumnWidget reads
\* from it the same class names in the same order, each with the same list of
\* (start, end) texts.
C8_ScheduleRoundTrip ==
    [][(class_save /\ \E k \in 1..Len(class_info') : class_info'[k].name # "")
          => /\ save_file'.exists
             /\ dict_keys(constructed(save_file').class_info) = dict_keys(class_info')
             /\ \A k \in 1..Len(class_info') :
                    dict_get(constructed(save_file').class_info, class_info'[k].name)
                    = class_info'[k].schedule]_vars

\* the file holds what class_info holds: two classes, the first of them with
\* an interval whose start is no datetime
C8_Witness ==
    /\ save_file.exists
    /\ load(save_file.document) = class_info
    /\ Len(class_info) = 2
    /\ class_info[1].name # "" /\ class_info[2].name # ""
    /\ \E r \in 1..Len(class_info[1].schedule) : ~is_datetime(class_info[1].schedule[r][1])

\* C9: class_save of the placeholder (one unnamed key with no interval) leaves
\* no file, and a new TwoColumnWidget then holds an empty collection; class_save
\* of any other collection leaves a file with every class of the collection.
C9_PlaceholderNeverWritten ==
    [][class_save
          => IF class_info' = placeholder
             THEN /\ ~save_file'.exists
                  /\ constructed(save_file').class_info = <<>>
             ELSE /\ save_file'.exists
                  /\ Len(save_file'.document) = Len(class_info')
                  /\ \A k \in 1..Len(class_info') :
                         /\ save_file'.document[k].key = class_info'[k].name
                         /\ Len(save_file'.document[k].value) = Len(class_info'[k].schedule)]_vars

\* the placeholder was saved: class_info holds it and there is no file
C9_Witness == class_info = placeholder /\ ~save_file.exists

(***************************************************************************)
(* Properties of the preconditions of compute.                             *)
(***************************************************************************)
\* C11: compute with no dataset ends on the message box with the no-data error;
\* compute with a dataset that lacks expected columns ends on the message box
\* with the missing-columns error, which names the expected columns the dataset
\* lacks.  In both cases it adds no label to the grid and shows no result
\* dialog.
C11_ComputePreconditions ==
    [][compute =>
          /\ ~data.frame =>
                 /\ modal' = ErrorBox("compute", "ValueError", {})
                 /\ results' = <<>>
                 /\ layout_result' = layout_result
          /\ (data.frame /\ EXPECTED_COLUMNS \ Range(data.columns) # {}) =>
                 /\ modal' = ErrorBox("compute", "ValueError",
                                      EXPECTED_COLUMNS \ Range(data.columns))
                 /\ results' = <<>>
                 /\ layout_result' = layout_result]_vars

\* compute ended on the missing-columns error, on a dataset without the score
\* column, after an earlier call had filled the grid
C11_Witness ==
    /\ modal = ErrorBox("compute", "ValueError", {"Note/20,00"})
    /\ data.frame
    /\ "Note/20,00" \notin Range(data.columns)
    /\ results = <<>>
    /\ layout_result # new_layout

C13_ColumnCheckPrecedesParsing ==
    [][\A file \in LoaderFiles :
          ( /\ file # EmptyFile
            /\ EXPECTED_COLUMNS \ Range(file.header) # {}
            /\ open_csv("csv", file) )
          => /\ modal' = ErrorBox("load_data", "ValueError",
                                  EXPECTED_COLUMNS \ Range(file.header))
             /\ data' = read_csv(file).value
             /\ student_filter' = student_filter]_vars

\* the load of a file without status, with a score that is no number, ended on
\* the missing-columns error while the selection held an entry
C13_Witness ==
    /\ modal = ErrorBox("load_data", "ValueError", {"Statut"})
    /\ data.dtype["Note/20,00"] = "object"
    /\ \E i \in 1..Len(data.rows) : IsRaised(float(replace_comma(data.rows[i]["Note/20,00"])))
    /\ Len(student_filter) > 0

(***************************************************************************)
(* Properties of the class operations.                                     *)
(***************************************************************************)
\* C14: class_remove, when the name the selector shows is no key of
\* class_info, raises nothing and leaves class_info as it was.
C14_RemoveAbsentClassIsNoOp ==
    [][(class_remove /\ ~dict_has(class_info, currentText(class_selection)))
          => /\ modal'.window # "crashed"
             /\ class_info' = class_info]_vars

\* C15: after class_remove, n being the name the selector showed and a key of
\* class_info, n is no key of class_info and no key of the document of the
\* file, if there is a file, and every other class has the intervals it had.
C15_RemovedClassIsGone ==
    [][(class_remove /\ dict_has(class_info, currentText(class_selection)))
          => /\ ~dict_has(class_info', currentText(class_selection))
             /\ save_file'.exists =>
                    \A k \in 1..Len(save_file'.document) :
                        save_file'.document[k].key # currentText(class_selection)
             /\ \A k \in 1..Len(class_info) :
                    class_info[k].name # currentText(class_selection)
                    => /\ dict_has(class_info', class_info[k].name)
                       /\ dict_get(class_info', class_info[k].name) = class_info[k].schedule]_vars

\* C16: class_add with a name that is a key of class_info ends on an error and
\* leaves class_info and the names the selector lists as they were; with a name
\* that is no key it puts the name, with no interval, at the end of class_info.
C16_AddClassRejectsDuplicate ==
    [][\A name \in ClassNames :
          class_add(name, TRUE)
          => IF dict_has(class_info, name)
             THEN /\ modal'.window = "Error"
                  /\ class_info' = class_info
                  /\ class_selection'.items = class_selection.items
             ELSE class_info' = Append(class_info, [name |-> name, schedule |-> <<>>])]_vars

\* C17: a step that changes the file is a step of class_save or of
\* class_remove: class_add, add_row, remove_selected_row, the edit of a cell and
\* the selection of a class leave the file as it is.
C17_FileChangesOnlyOnSave ==
    [][save_file' # save_file => class_save \/ class_remove]_vars

\* a class was added and a cell of its table edited, and the file, which lists
\* another class, does not list it
C17_Witness ==
    /\ save_file.exists
    /\ Len(class_info) = 2
    /\ dict_keys(load(save_file.document)) = <<class_info[1].name>>
    /\ currentText(class_selection) = class_info[2].name
    /\ \E r \in 1..Len(table) : table[r][1] = "abc"

(***************************************************************************)
(* Properties of the error handling.                                       *)
(***************************************************************************)
\* C18: no exception leaves a handler or a constructor uncaught: the
\* application is never ended by one, whatever the file found at start-up and
\* whatever the user does.
C18_NoUncaughtException == modal.window # "crashed"

(***************************************************************************)
(* Properties of the result grid.                                          *)
(***************************************************************************)
\* C19: what the result dialog shows depends on the dataset, the intervals and
\* the selection of the call only: the grid has one row for each result row of
\* the call and no other row, and each cell shows the text of that result row
\* and no other text.
C19_NoCrossCallState ==
    modal = ResultDialog =>
        /\ Len(layout_result) = Len(compute_on(data, student_filter, table).labels)
        /\ \A cpt \in 1..Len(layout_result) :
               /\ Range(layout_result[cpt][1]) = {results[cpt].student}
               /\ Range(layout_result[cpt][2]) = {results[cpt].max}
               /\ Range(layout_result[cpt][3]) = {results[cpt].notes}

\* C20: the result rows of a call are those of the selected students, one for
\* each, in the order load_data gave the students in the selection: the
\* distinct (last name, first name) pairs in the order of the pairs.
C20_RowsInIndexOrder ==
    modal = ResultDialog =>
        [k \in 1..Len(results) |-> results[k].name]
        = SelectSeq(groupby_keys(data, "Pr\\u221a©nom"), selected)

(***************************************************************************)
(* Properties of class_save on the collection.                             *)
(***************************************************************************)
\* C21, as the claim states it: class_save leaves the keys of class_info as
\* they were, and the intervals of every key but the name the selector shows.
C21_SaveKeepsKeys ==
    [][class_save
          => /\ dict_keys(class_info') = dict_keys(class_info)
             /\ \A k \in 1..Len(class_info) :
                    class_info[k].name # currentText(class_selection)
                    => class_info'[k].schedule = class_info[k].schedule]_vars

\* C21, amended: class_save stores the rows of the table under the name the
\* selector shows ('' when it lists no class); every other key keeps its place
\* and its intervals, no key is removed, and that name is added, as the last
\* key, exactly when it was no key.
C21_SaveStoresUnderSelectedName ==
    [][class_save
          => /\ \A k \in 1..Len(class_info) :
                    /\ class_info'[k].name = class_info[k].name
                    /\ class_info[k].name # currentText(class_selection)
                       => class_info'[k].schedule = class_info[k].schedule
             /\ dict_has(class_info', currentText(class_selection))
             /\ dict_get(class_info', currentText(class_selection)) = get_data(table)
             /\ Len(class_info')
                = IF dict_has(class_info, currentText(class_selection))
                  THEN Len(class_info) ELSE Len(class_info) + 1]_vars

\* a save with no class listed added the key '' with the row of the table, and a
\* later save of an added class kept it: the file holds both
C21_Witness ==
    /\ save_file.exists
    /\ load(save_file.document) = class_info
    /\ Len(class_info) = 2
    /\ class_info[1].name = ""
    /\ Len(class_info[1].schedule) > 0
    /\ Len(class_info[2].schedule) > 0

(***************************************************************************)
(* Properties of the session as a whole.                                   *)
(***************************************************************************)
\* C22: in every state the student filter has one entry for each distinct
\* student of the dataset the session holds, and its texts are the names of
\* those students written 'Last First'; it has no entry when the session holds
\* no dataset.
C22_SelectionMatchesDataset ==
    IF ~data.frame THEN student_filter = <<>>
    ELSE /\ Len(student_filter) = Len(groupby_keys(data, "Prénom"))
         /\ {student_filter[j].text : j \in 1..Len(student_filter)}
            = {full_name(name[1], name[2]) : name \in Range(groupby_keys(data, "Prénom"))}

\* C23: in every state the names the class selector lists are the named keys
\* of class_info, each listed once; class_info does not hold the key '' next to
\* a named class, and the document of the file does not hold the key ''.
C23_SelectorListsTheKeys ==
    /\ Range(class_selection.items) = Range(dict_keys(class_info)) \ {""}
    /\ Cardinality(Range(class_selection.items)) = Len(class_selection.items)
    /\ (\E k \in 1..Len(class_info) : class_info[k].name # "") => ~dict_has(class_info, "")
    /\ \A k \in 1..Len(save_file.document) : save_file.document[k].key # ""

====
